---- MODULE Spec2Model ----
(***************************************************************************)
(* EventSphere-API: the pending-registration / email-verification          *)
(* workflow (app/core/api/v1/public/controller/auth.py) over the shared    *)
(* application cache (app/extensions.py, flask_caching SimpleCache) and    *)
(* the ephemeral record helpers (app/utils/verification).                  *)
(* Also the event controllers (registration, attendance, certificate and   *)
(* event approval) over the event, registration, attendance and            *)
(* certificate tables.                                                     *)
(***************************************************************************)
EXTENDS Integers, Sequences, FiniteSets, TLC

(* ------------------------------ bounds --------------------------------- *)
MaxRegs == 2
NumCodes == 2
NumEmails == 2
MaxTime == 20
TickStep == 10
MaxResends == 4
ShallowAttempts == 1
NumProcs == 2
MaxConcCalls == 1
NumTokens == 1
MaxStoreTime == 32
MaxTokenAttempts == 2
MaxLimitTime == 4
MaxWindow == 2
MaxCount == 3
MaxLimit == 3
NumEvents == 1
NumStudents == 2
MaxParticipants == 1
MaxCertificates == 2
MaxListLen == 2

(* ------------------------- program constants --------------------------- *)
CodeBase == 100000
AttemptCeiling == 10
ResendCeiling == 3
RegTTL == 15
ResetTTL == 30
SecondsPerMinute == 60

(* ------------------------------ domains -------------------------------- *)
Codes == CodeBase..(CodeBase + NumCodes - 1)
RegIds == 1..MaxRegs
Emails == 1..NumEmails
RawEmails == 0..(2 * NumEmails)
Usernames == 0..1
ValidPayloads ==
    [email : RawEmails \ {0}, firstname : {1}, username : Usernames, password : {1}]
InvalidPayloads ==
    { [email |-> 0, firstname |-> 1, username |-> 0, password |-> 1],
      [email |-> 1, firstname |-> 0, username |-> 0, password |-> 1],
      [email |-> 1, firstname |-> 1, username |-> 0, password |-> 0] }
Payloads == ValidPayloads \cup InvalidPayloads

NoMail == <<0, 0>>
NeverStored == <<0, 0, 0, 0, 0, 0>>
Procs == 1..NumProcs
TokenHashes == 1..NumTokens
Windows == 1..MaxWindow
Limits == 0..MaxLimit
EventIds == 1..NumEvents
Students == 1..NumStudents

\* an event id under which no event row exists
NoEvent == [status |-> "none", max_participants |-> 0]

\* the tables before any request: event rows by id, registration status and
\* number of certificate rows by (event_id, student_id), attendance rows
NoRows ==
    [event |-> [e \in EventIds |-> NoEvent],
     registration |-> [k \in EventIds \X Students |-> "none"],
     attendance |-> {},
     certificate |-> [k \in EventIds \X Students |-> 0]]

NoRec ==
    [email |-> 0, firstname |-> 0, lastname |-> 0, username |-> 0,
     password_hash |-> 0, code_hash |-> 0, attempts |-> 0]

IdleLoc ==
    [op |-> "", reg |-> 0, code |-> 0, pending |-> NoRec, rec |-> NoRec, n |-> 0,
     status |-> 0, msg |-> ""]

\* cache: app_cache, key -> [value, expires (seconds)]; users: the AppUser rows;
\* now: the clock, in minutes; nextReg: the next fresh reg_id; last: the response
\* (and the email sent) of the last sequential call; verifyCalls: history, the
\* verify_email calls made on each pending reg_id.
\* pc, loc, calls: the position, the locals and the number of calls of each
\* concurrent verify_email request. stored: history of each password-reset
\* record, <<when last stored, with what ttl, for which email, the expiry
\* (minute) of the live record that store replaced or 0, when first stored by
\* store_password_reset_token directly, with what ttl>>.
\* db: the event, registration, attendance and certificate tables.
VARIABLES cache, users, now, nextReg, last, verifyCalls, pc, loc, calls, stored, db

vars == <<cache, users, now, nextReg, last, verifyCalls, pc, loc, calls, stored, db>>

workflowVars == <<users, nextReg, verifyCalls, db>>

requestVars == <<pc, loc, calls>>

(* ------------------------- pure helper functions ----------------------- *)

\* payload.email.lower() followed by validate_email(...).normalized
Lower(e) == IF e > NumEmails THEN e - NumEmails ELSE e

\* hash_code(code, salt): deterministic digest of the code salted with reg_id
hash_code(code, salt) == code * (MaxRegs + 2) + salt

\* AppUser.set_password: one-way hash of the chosen password
set_password(password) == password + 500

(* ---------------------------- the cache -------------------------------- *)

\* Cache.set(key, value, timeout=seconds)
CacheSet(c, k, v, timeout, t) ==
    [x \in (DOMAIN c) \cup {k} |->
        IF x = k THEN [value |-> v, expires |-> t * SecondsPerMinute + timeout]
                 ELSE c[x]]

\* Cache.get(key) is not None
CacheHas(c, k, t) == k \in DOMAIN c /\ c[k].expires > t * SecondsPerMinute

\* Cache.delete(key)
CacheDelete(c, k) == [x \in (DOMAIN c) \ {k} |-> c[x]]

\* expired entries are dropped by the cache
CachePrune(c, t) ==
    [x \in {y \in DOMAIN c : c[y].expires > t * SecondsPerMinute} |-> c[x]]

(* -------------------- pending-registration helpers --------------------- *)

PendingKey(reg_id) == <<"pending_registration", reg_id>>

store_pending_registration(c, reg_id, pending, ttl_minutes, t) ==
    CacheSet(c, PendingKey(reg_id), pending, ttl_minutes * SecondsPerMinute, t)

get_pending_registration(c, reg_id, t) == CacheHas(c, PendingKey(reg_id), t)

delete_pending_registration(c, reg_id) == CacheDelete(c, PendingKey(reg_id))

\* increment_attempts: the value returned
increment_attempts_result(c, reg_id, t) ==
    IF ~get_pending_registration(c, reg_id, t) THEN 0
    ELSE c[PendingKey(reg_id)].value.attempts + 1

\* increment_attempts: the cache afterwards
increment_attempts(c, reg_id, t) ==
    IF ~get_pending_registration(c, reg_id, t) THEN c
    ELSE LET rec == c[PendingKey(reg_id)].value
         IN store_pending_registration(c, reg_id,
                [rec EXCEPT !.attempts = rec.attempts + 1], RegTTL, t)

(* --------------------------- durable users ----------------------------- *)

email_exists(us, email) == \E i \in DOMAIN us : us[i].email = email

username_exists(us, username) == \E i \in DOMAIN us : us[i].username = username

(* ------------------------------ Init ----------------------------------- *)

Init ==
    /\ cache = << >>
    /\ users = << >>
    /\ now = 0
    /\ nextReg = 1
    /\ last = [op |-> "none", reg |-> 0, nth |-> 0, status |-> 0, msg |-> "",
               data |-> {}, mail |-> NoMail, hit |-> FALSE]
    /\ verifyCalls = [r \in RegIds |-> 0]
    /\ pc = [p \in Procs |-> "idle"]
    /\ loc = [p \in Procs |-> IdleLoc]
    /\ calls = [p \in Procs |-> 0]
    /\ stored = [h \in TokenHashes |-> NeverStored]
    /\ db = NoRows

(* ----------------------------- sign_up --------------------------------- *)

Response(op, reg, nth, status, msg, data, mail) ==
    [op |-> op, reg |-> reg, nth |-> nth, status |-> status, msg |-> msg,
     data |-> data, mail |-> mail, hit |-> FALSE]

\* history: whether the code of the request answered was the record's code
Asked(response, hit) == [response EXCEPT !.hit = hit]

\* mutant: only the email is validated
SignUpValidEmailOnly(p) == p.email # 0

\* SignUpRequest.model_validate and the three emptiness checks
SignUpValid(p) == p.email # 0 /\ p.firstname # 0 /\ p.password # 0

\* the pending record sign_up prepares
NewPending(p, email, code, reg_id) ==
    [email |-> email, firstname |-> p.firstname, lastname |-> 0,
     username |-> p.username, password_hash |-> set_password(p.password),
     code_hash |-> hash_code(code, reg_id), attempts |-> 0]

\* mutant: the code is echoed in the response
SignUpDataWithCode(reg_id, code) == {reg_id, code}

\* the body of sign_up's success response
SignUpData(reg_id, code) == {reg_id}

\* mutant: a live pending registration with the email counts as taken
SignUpConflictPending(c, us, email, username, t) ==
    IF email_exists(us, email) THEN "Email already taken"
    ELSE IF \E k \in DOMAIN c : CacheHas(c, k, t) /\ c[k].value.email = email
         THEN "Email already taken"
    ELSE IF username # 0 /\ username_exists(us, username) THEN "Username already taken"
    ELSE ""

\* the existence checks of sign_up: the message of the conflict, "" when none
SignUpConflict(c, us, email, username, t) ==
    IF email_exists(us, email) THEN "Email already taken"
    ELSE IF username # 0 /\ username_exists(us, username) THEN "Username already taken"
    ELSE ""

SignUp(p) ==
    /\ UNCHANGED <<pc, loc, calls, stored, db>>
    /\ LET email == Lower(p.email) IN
        IF ~SignUpValid(p) THEN
            /\ last' = Response("sign_up", 0, 0, 400, "validation error", {}, NoMail)
            /\ UNCHANGED <<cache, users, now, nextReg, verifyCalls>>
        ELSE IF SignUpConflict(cache, users, email, p.username, now) # "" THEN
            /\ last' = Response("sign_up", 0, 0, 409,
                                SignUpConflict(cache, users, email, p.username, now),
                                {}, NoMail)
            /\ UNCHANGED <<cache, users, now, nextReg, verifyCalls>>
        ELSE
            /\ nextReg <= MaxRegs
            /\ \E code \in Codes :
                LET reg_id == nextReg IN
                /\ cache' = store_pending_registration(cache, reg_id,
                                NewPending(p, email, code, reg_id), RegTTL, now)
                /\ last' = Response("sign_up", reg_id, 0, 200,
                                    "Verification code sent successfully",
                                    SignUpData(reg_id, code), <<email, code>>)
            /\ nextReg' = nextReg + 1
            /\ UNCHANGED <<users, now, verifyCalls>>

(* --------------------------- verify_email ------------------------------ *)

\* mutant: the ceiling compared one attempt late
AttemptsExceededLate(n) == n > AttemptCeiling + 1

\* mutant: the ceiling compared with >= (one attempt fewer)
AttemptsExceededOffByOne(n) == n >= AttemptCeiling

\* "Limit brute force attempts": increment_attempts(reg_id) > 10
AttemptsExceeded(n) == n > AttemptCeiling

\* mutant: the comparison inverted
CodeMatchesInverted(pending, code, reg_id) == pending.code_hash # hash_code(code, reg_id)

\* pending.code_hash == hash_code(str(payload.code), salt=payload.reg_id)
CodeMatches(pending, code, reg_id) == pending.code_hash = hash_code(code, reg_id)

\* mutant: the username is not copied to the new user
NewUserNoUsername(pending) ==
    [email |-> pending.email, username |-> 0, password_hash |-> pending.password_hash]

\* new_user built from the pending record's captured fields
NewUser(pending) ==
    [email |-> pending.email, username |-> pending.username,
     password_hash |-> pending.password_hash]

\* mutant: only the email is re-checked
VerifyConflictEmailOnly(us, pending) ==
    IF email_exists(us, pending.email) THEN "Email already taken" ELSE ""

\* the uniqueness re-check just before creation
VerifyConflict(us, pending) ==
    IF email_exists(us, pending.email) THEN "Email already taken"
    ELSE IF pending.username # 0 /\ username_exists(us, pending.username)
         THEN "Username already taken"
    ELSE ""

\* history: calls counted while the record is pending, forgotten once it is gone
Count(f, reg_id, c) ==
    [f EXCEPT ![reg_id] = IF PendingKey(reg_id) \in DOMAIN c THEN @ + 1 ELSE 0]

Forget(f, c) == [r \in RegIds |-> IF PendingKey(r) \in DOMAIN c THEN f[r] ELSE 0]

\* bound: at most one pending registration is guessed at more than
\* ShallowAttempts times
GuessBound(c, reg_id) ==
    IF PendingKey(reg_id) \notin DOMAIN c THEN TRUE
    ELSE IF c[PendingKey(reg_id)].value.attempts < ShallowAttempts THEN TRUE
    ELSE \A r \in RegIds \ {reg_id} :
            IF PendingKey(r) \in DOMAIN c
            THEN c[PendingKey(r)].value.attempts <= ShallowAttempts
            ELSE TRUE

VerifyEmail(reg_id, code) ==
    /\ GuessBound(cache, reg_id)
    /\ UNCHANGED <<pc, loc, calls, stored, db>>
    /\ UNCHANGED <<now, nextReg>>
    /\ IF ~get_pending_registration(cache, reg_id, now) THEN
            /\ last' = Response("verify_email", reg_id, 0, 400,
                                "invalid or expired verification", {}, NoMail)
            /\ UNCHANGED <<cache, users, verifyCalls>>
       ELSE
        LET pending == cache[PendingKey(reg_id)].value
            n == increment_attempts_result(cache, reg_id, now)
            c1 == increment_attempts(cache, reg_id, now)
            nth == verifyCalls[reg_id] + 1
        IN
        /\ IF AttemptsExceeded(n) THEN
                /\ cache' = delete_pending_registration(c1, reg_id)
                /\ last' = Asked(Response("verify_email", reg_id, nth, 429,
                                          "too many attempts", {}, NoMail),
                                 CodeMatches(pending, code, reg_id))
                /\ UNCHANGED users
           ELSE IF ~CodeMatches(pending, code, reg_id) THEN
                /\ cache' = c1
                /\ last' = Response("verify_email", reg_id, nth, 400,
                                    "invalid code", {}, NoMail)
                /\ UNCHANGED users
           ELSE IF VerifyConflict(users, pending) # "" THEN
                /\ cache' = delete_pending_registration(c1, reg_id)
                /\ last' = Response("verify_email", reg_id, nth, 409,
                                    VerifyConflict(users, pending), {}, NoMail)
                /\ UNCHANGED users
           ELSE
                /\ users' = Append(users, NewUser(pending))
                /\ cache' = delete_pending_registration(c1, reg_id)
                /\ last' = Response("verify_email", reg_id, nth, 200,
                                    "Email verified and account created", {}, NoMail)
        /\ verifyCalls' = Count(verifyCalls, reg_id, cache')

(* --------------------- resend_verification_code ------------------------ *)

\* mutant: the resend gate compared with >
ResendRefusedAbove(pending) == pending.attempts > ResendCeiling

\* "Rate limit: allow max 3 resends": pending.attempts >= 3
ResendRefused(pending) == pending.attempts >= ResendCeiling

\* mutant: the record is stored with its attempts reset
ResentPendingFresh(pending, new_code, reg_id) ==
    [pending EXCEPT !.code_hash = hash_code(new_code, reg_id), !.attempts = 0]

\* mutant: the new code is hashed without the reg_id salt
ResentPendingUnsalted(pending, new_code, reg_id) ==
    [pending EXCEPT !.code_hash = hash_code(new_code, 0)]

\* the record resend stores: the record read, with the new code's hash
ResentPending(pending, new_code, reg_id) ==
    [pending EXCEPT !.code_hash = hash_code(new_code, reg_id)]

\* the body of resend's success response
ResendData(reg_id, new_code) == {}

\* history: the position of this call in a run of resend calls on reg_id, each
\* of the earlier ones successful, counted up to MaxResends
ResendStreak(reg_id) ==
    IF last.op = "resend" /\ last.reg = reg_id /\ last.status = 200
    THEN (IF last.nth < MaxResends THEN last.nth + 1 ELSE MaxResends)
    ELSE 1

ResendVerificationCode(reg_id) ==
    /\ UNCHANGED <<pc, loc, calls, stored, db>>
    /\ UNCHANGED <<users, now, nextReg, verifyCalls>>
    /\ IF ~get_pending_registration(cache, reg_id, now) THEN
            /\ last' = Response("resend", reg_id, 0, 400,
                                "invalid or expired registration", {}, NoMail)
            /\ UNCHANGED cache
       ELSE
        LET pending == cache[PendingKey(reg_id)].value
            nth == ResendStreak(reg_id)
        IN
        IF ResendRefused(pending) THEN
            /\ last' = Response("resend", reg_id, nth, 429,
                                "maximum resend attempts exceeded", {}, NoMail)
            /\ UNCHANGED cache
        ELSE
            \E new_code \in Codes :
            /\ cache' = store_pending_registration(cache, reg_id,
                            ResentPending(pending, new_code, reg_id), RegTTL, now)
            /\ last' = Response("resend", reg_id, nth, 200,
                                "Verification code resent",
                                ResendData(reg_id, new_code),
                                <<pending.email, new_code>>)

(* --------------------------- forgot_password --------------------------- *)

\* the catch-all error handler of the API blueprints
_handle_unexpected == [status |-> 500, msg |-> "internal server error"]

\* POST /auth/forgot-password: the route calls AuthController.forgot_password,
\* an attribute the controller class does not define; the AttributeError is
\* answered by the catch-all handler, whoever the email belongs to
ForgotPassword(email) ==
    /\ last' = Response("forgot_password", email, 0, _handle_unexpected.status,
                        _handle_unexpected.msg, {}, NoMail)
    /\ UNCHANGED <<cache, users, now, nextReg, verifyCalls, pc, loc, calls, stored, db>>

(* ------------------------------ time ----------------------------------- *)

Tick ==
    /\ now + TickStep <= MaxTime
    /\ UNCHANGED <<pc, loc, calls, stored, db>>
    /\ now' = now + TickStep
    /\ cache' = CachePrune(cache, now')
    /\ last' = Response("tick", 0, 0, 0, "", {}, NoMail)
    /\ verifyCalls' = Forget(verifyCalls, cache')
    /\ UNCHANGED <<users, nextReg>>

Next ==
    \/ \E p \in Payloads : SignUp(p)
    \/ \E r \in RegIds, code \in Codes : VerifyEmail(r, code)
    \/ \E r \in RegIds : ResendVerificationCode(r)
    \/ \E e \in Emails : ForgotPassword(e)
    \/ Tick

Spec == Init /\ [][Next]_vars

(* ------------- verify_email, statement by statement -------------------- *)
(* Requests run concurrently; every cache call and every query is one step. *)

Answer(l, status, msg) == [l EXCEPT !.status = status, !.msg = msg]

\* the uniqueness constraints of the AppUser table (email; username when set)
UniqueViolation(us, u) ==
    \E i \in DOMAIN us :
        \/ us[i].email = u.email
        \/ (u.username # 0 /\ us[i].username = u.username)

\* mutant: IntegrityError falls through to the catch-all handler
IntegrityStatusUnhandled == 500

\* _handle_integrity: rollback, "conflict with existing data", 409
IntegrityStatus == 409

\* pending = get_pending_registration(payload.reg_id)
VStart(p, reg_id, code) ==
    /\ pc[p] = "idle"
    /\ calls[p] < MaxConcCalls
    /\ calls' = [calls EXCEPT ![p] = @ + 1]
    /\ UNCHANGED <<cache, now, last, stored, workflowVars>>
    /\ IF ~get_pending_registration(cache, reg_id, now) THEN
            /\ loc' = [loc EXCEPT ![p] =
                        [IdleLoc EXCEPT !.op = "verify_email", !.reg = reg_id,
                                        !.code = code, !.status = 400,
                                        !.msg = "invalid or expired verification"]]
            /\ UNCHANGED pc
       ELSE
            /\ loc' = [loc EXCEPT ![p] =
                        [IdleLoc EXCEPT !.op = "verify_email", !.reg = reg_id,
                                        !.code = code,
                                        !.pending = cache[PendingKey(reg_id)].value]]
            /\ pc' = [pc EXCEPT ![p] = "inc_read"]

\* increment_attempts: the record is read ...
VIncRead(p) ==
    /\ pc[p] = "inc_read"
    /\ UNCHANGED <<cache, now, last, stored, calls, workflowVars>>
    /\ IF ~get_pending_registration(cache, loc[p].reg, now) THEN
            /\ loc' = [loc EXCEPT ![p].n = 0]
            /\ pc' = [pc EXCEPT ![p] = "gate"]
       ELSE
            /\ loc' = [loc EXCEPT ![p].rec = cache[PendingKey(loc[p].reg)].value]
            /\ pc' = [pc EXCEPT ![p] = "inc_store"]

\* ... and stored back with attempts + 1
VIncStore(p) ==
    /\ pc[p] = "inc_store"
    /\ UNCHANGED <<now, last, stored, calls, workflowVars>>
    /\ cache' = store_pending_registration(cache, loc[p].reg,
                    [loc[p].rec EXCEPT !.attempts = @ + 1], RegTTL, now)
    /\ loc' = [loc EXCEPT ![p].n = loc[p].rec.attempts + 1, ![p].rec = NoRec]
    /\ pc' = [pc EXCEPT ![p] = "gate"]

\* the attempt gate and the comparison of the hashes
VGate(p) ==
    /\ pc[p] = "gate"
    /\ UNCHANGED <<now, last, stored, calls, workflowVars>>
    /\ IF AttemptsExceeded(loc[p].n) THEN
            /\ cache' = delete_pending_registration(cache, loc[p].reg)
            /\ loc' = [loc EXCEPT ![p] = Answer(@, 429, "too many attempts")]
            /\ pc' = [pc EXCEPT ![p] = "idle"]
       ELSE IF ~CodeMatches(loc[p].pending, loc[p].code, loc[p].reg) THEN
            /\ loc' = [loc EXCEPT ![p] = Answer(@, 400, "invalid code")]
            /\ pc' = [pc EXCEPT ![p] = "idle"]
            /\ UNCHANGED cache
       ELSE
            /\ pc' = [pc EXCEPT ![p] = "check_email"]
            /\ UNCHANGED <<cache, loc>>

\* email_exists query
VCheckEmail(p) ==
    /\ pc[p] = "check_email"
    /\ UNCHANGED <<now, last, stored, calls, workflowVars>>
    /\ IF email_exists(users, loc[p].pending.email) THEN
            /\ cache' = delete_pending_registration(cache, loc[p].reg)
            /\ loc' = [loc EXCEPT ![p] = Answer(@, 409, "Email already taken")]
            /\ pc' = [pc EXCEPT ![p] = "idle"]
       ELSE
            /\ pc' = [pc EXCEPT ![p] =
                        IF loc[p].pending.username # 0 THEN "check_username" ELSE "insert"]
            /\ UNCHANGED <<cache, loc>>

\* username_exists query
VCheckUsername(p) ==
    /\ pc[p] = "check_username"
    /\ UNCHANGED <<now, last, stored, calls, workflowVars>>
    /\ IF username_exists(users, loc[p].pending.username) THEN
            /\ cache' = delete_pending_registration(cache, loc[p].reg)
            /\ loc' = [loc EXCEPT ![p] = Answer(@, 409, "Username already taken")]
            /\ pc' = [pc EXCEPT ![p] = "idle"]
       ELSE
            /\ pc' = [pc EXCEPT ![p] = "insert"]
            /\ UNCHANGED <<cache, loc>>

\* db.session.add(new_user) ... db.session.commit()
VInsert(p) ==
    /\ pc[p] = "insert"
    /\ UNCHANGED <<cache, now, last, stored, calls, nextReg, verifyCalls, db>>
    /\ IF UniqueViolation(users, NewUser(loc[p].pending)) THEN
            /\ loc' = [loc EXCEPT ![p] =
                        Answer(@, IntegrityStatus, "conflict with existing data")]
            /\ pc' = [pc EXCEPT ![p] = "idle"]
            /\ UNCHANGED users
       ELSE
            /\ users' = Append(users, NewUser(loc[p].pending))
            /\ pc' = [pc EXCEPT ![p] = "delete"]
            /\ UNCHANGED loc

\* delete_pending_registration(payload.reg_id) and the success response
VDelete(p) ==
    /\ pc[p] = "delete"
    /\ UNCHANGED <<now, last, stored, calls, workflowVars>>
    /\ cache' = delete_pending_registration(cache, loc[p].reg)
    /\ loc' = [loc EXCEPT ![p] = Answer(@, 200, "Email verified and account created")]
    /\ pc' = [pc EXCEPT ![p] = "idle"]

\* resend_verification_code: the record is read and the resend gate applied
RStart(p, reg_id) ==
    /\ pc[p] = "idle"
    /\ calls[p] < MaxConcCalls
    /\ calls' = [calls EXCEPT ![p] = @ + 1]
    /\ UNCHANGED <<cache, now, last, stored, workflowVars>>
    /\ IF ~get_pending_registration(cache, reg_id, now) THEN
            /\ loc' = [loc EXCEPT ![p] =
                        [IdleLoc EXCEPT !.op = "resend", !.reg = reg_id, !.status = 400,
                                        !.msg = "invalid or expired registration"]]
            /\ UNCHANGED pc
       ELSE IF ResendRefused(cache[PendingKey(reg_id)].value) THEN
            /\ loc' = [loc EXCEPT ![p] =
                        [IdleLoc EXCEPT !.op = "resend", !.reg = reg_id, !.status = 429,
                                        !.pending = cache[PendingKey(reg_id)].value,
                                        !.msg = "maximum resend attempts exceeded"]]
            /\ UNCHANGED pc
       ELSE
            /\ loc' = [loc EXCEPT ![p] =
                        [IdleLoc EXCEPT !.op = "resend", !.reg = reg_id,
                                        !.pending = cache[PendingKey(reg_id)].value]]
            /\ pc' = [pc EXCEPT ![p] = "resend_store"]

\* ... and stored back with the new code's hash
RStore(p, new_code) ==
    /\ pc[p] = "resend_store"
    /\ UNCHANGED <<now, last, stored, calls, workflowVars>>
    /\ cache' = store_pending_registration(cache, loc[p].reg,
                    ResentPending(loc[p].pending, new_code, loc[p].reg), RegTTL, now)
    /\ loc' = [loc EXCEPT ![p] =
                [Answer(@, 200, "Verification code resent") EXCEPT !.code = new_code]]
    /\ pc' = [pc EXCEPT ![p] = "idle"]

NextConc ==
    \/ \E p \in ValidPayloads : SignUp(p)
    \/ \E p \in Procs, r \in RegIds, code \in Codes : VStart(p, r, code)
    \/ \E p \in Procs : VIncRead(p)
    \/ \E p \in Procs : VIncStore(p)
    \/ \E p \in Procs : VGate(p)
    \/ \E p \in Procs : VCheckEmail(p)
    \/ \E p \in Procs : VCheckUsername(p)
    \/ \E p \in Procs : VInsert(p)
    \/ \E p \in Procs : VDelete(p)
    \/ \E p \in Procs, r \in RegIds : RStart(p, r)
    \/ \E p \in Procs, code \in Codes : RStore(p, code)

SpecConc == Init /\ [][NextConc]_vars

(* ------------------- password-reset token records ---------------------- *)

_key(token_hash) == <<"password_reset", token_hash>>

\* PasswordResetToken(user_id, email, token_hash, attempts = 0)
PasswordResetToken(user_id, email, token_hash) ==
    [user_id |-> user_id, email |-> email, token_hash |-> token_hash, attempts |-> 0]

\* mutant: ttl_minutes handed to the cache as seconds
store_password_reset_token_seconds(c, token_hash, reset_data, ttl_minutes, t) ==
    CacheSet(c, _key(token_hash), reset_data, ttl_minutes, t)

\* mutant: the key is added only when absent (Cache.add)
store_password_reset_token_add(c, token_hash, reset_data, ttl_minutes, t) ==
    IF CacheHas(c, _key(token_hash), t) THEN c
    ELSE CacheSet(c, _key(token_hash), reset_data, ttl_minutes * SecondsPerMinute, t)

store_password_reset_token(c, token_hash, reset_data, ttl_minutes, t) ==
    CacheSet(c, _key(token_hash), reset_data, ttl_minutes * SecondsPerMinute, t)

get_password_reset_token(c, token_hash, t) == CacheHas(c, _key(token_hash), t)

\* mutant: the whole cache is cleared
delete_password_reset_token_clear(c, token_hash) == << >>

delete_password_reset_token(c, token_hash) == CacheDelete(c, _key(token_hash))

\* increment_token_attempts: the value returned
increment_token_attempts_result(c, token_hash, t) ==
    IF ~get_password_reset_token(c, token_hash, t) THEN 0
    ELSE c[_key(token_hash)].value.attempts + 1

\* mutant: an absent record is created with one attempt
increment_token_attempts_create(c, token_hash, t) ==
    LET rec == IF get_password_reset_token(c, token_hash, t)
               THEN c[_key(token_hash)].value
               ELSE PasswordResetToken(1, 1, token_hash)
    IN store_password_reset_token(c, token_hash,
            [rec EXCEPT !.attempts = rec.attempts + 1], ResetTTL, t)

\* increment_token_attempts: the cache afterwards (stored with the default ttl)
increment_token_attempts(c, token_hash, t) ==
    IF ~get_password_reset_token(c, token_hash, t) THEN c
    ELSE LET rec == c[_key(token_hash)].value
         IN store_password_reset_token(c, token_hash,
                [rec EXCEPT !.attempts = rec.attempts + 1], ResetTTL, t)

StoreTTLs == {RegTTL, ResetTTL}

\* history: the minute at which the live record under token_hash expires, 0 if none
ExpiryMinute(c, token_hash, t) ==
    IF get_password_reset_token(c, token_hash, t)
    THEN c[_key(token_hash)].expires \div SecondsPerMinute
    ELSE 0

StoreResetToken(h, e, ttl) ==
    /\ cache' = store_password_reset_token(cache, h, PasswordResetToken(e, e, h), ttl, now)
    /\ stored' = [stored EXCEPT ![h] = <<now, ttl, e, ExpiryMinute(cache, h, now), now, ttl>>]
    /\ last' = Response("store", h, 0, 0, "", {}, NoMail)
    /\ UNCHANGED <<now, workflowVars, requestVars>>

GetResetToken(h) ==
    /\ last' = Response("get", h, 0, 0,
                        IF get_password_reset_token(cache, h, now) THEN "found" ELSE "absent",
                        {}, NoMail)
    /\ UNCHANGED <<cache, stored, now, workflowVars, requestVars>>

\* history: 2 when the previous call deleted the same key, else 1
DeleteStreak(h) == IF last.op = "delete" /\ last.reg = h THEN 2 ELSE 1

DeleteResetToken(h) ==
    /\ cache' = delete_password_reset_token(cache, h)
    /\ stored' = [stored EXCEPT ![h] = NeverStored]
    /\ last' = Response("delete", h, DeleteStreak(h), 0, "", {}, NoMail)
    /\ UNCHANGED <<now, workflowVars, requestVars>>

IncrementTokenAttempts(h) ==
    /\ get_password_reset_token(cache, h, now) =>
            cache[_key(h)].value.attempts < MaxTokenAttempts
    /\ cache' = increment_token_attempts(cache, h, now)
    /\ stored' = IF get_password_reset_token(cache, h, now)
                 THEN [stored EXCEPT ![h] = <<now, ResetTTL, @[3],
                                              ExpiryMinute(cache, h, now), @[5], @[6]>>]
                 ELSE stored
    /\ last' = Response("increment", h, increment_token_attempts_result(cache, h, now),
                        0, "", {}, NoMail)
    /\ UNCHANGED <<now, workflowVars, requestVars>>

TickMinute ==
    /\ now < MaxStoreTime
    /\ now' = now + 1
    /\ cache' = CachePrune(cache, now')
    /\ last' = Response("tick", 0, 0, 0, "", {}, NoMail)
    /\ UNCHANGED <<stored, workflowVars, requestVars>>

NextStore ==
    \/ \E h \in TokenHashes, e \in Emails, ttl \in StoreTTLs : StoreResetToken(h, e, ttl)
    \/ \E h \in TokenHashes : GetResetToken(h)
    \/ \E h \in TokenHashes : DeleteResetToken(h)
    \/ \E h \in TokenHashes : IncrementTokenAttempts(h)
    \/ TickMinute

SpecStore == Init /\ [][NextStore]_vars

(* ------------------------ password-reset rate limit -------------------- *)

\* mutant: the counter is kept under the record's prefix
_rate_limit_key_shared(email) == <<"password_reset", email>>

_rate_limit_key(email) == <<"password_reset_rate_limit", email>>

\* app_cache.get(key) or 0
RateAttempts(c, email, t) ==
    IF CacheHas(c, _rate_limit_key(email), t) THEN c[_rate_limit_key(email)].value ELSE 0

\* mutant: limited only above max_attempts
check_rate_limit_above(c, email, max_attempts, t) ==
    IF RateAttempts(c, email, t) > max_attempts
    THEN <<TRUE, 0>>
    ELSE <<FALSE, max_attempts - RateAttempts(c, email, t)>>

\* check_rate_limit: (is_limited, remaining_attempts)
check_rate_limit(c, email, max_attempts, t) ==
    IF RateAttempts(c, email, t) >= max_attempts
    THEN <<TRUE, 0>>
    ELSE <<FALSE, max_attempts - RateAttempts(c, email, t)>>

\* mutant: a check counts as an attempt
check_rate_limit_counting(c, email, t) ==
    IF CacheHas(c, _rate_limit_key(email), t)
    THEN [c EXCEPT ![_rate_limit_key(email)].value = @ + 1]
    ELSE c

\* check_rate_limit: the cache afterwards
check_rate_limit_cache(c, email, t) == c

\* increment_rate_limit: the value returned
increment_rate_limit_result(c, email, t) == RateAttempts(c, email, t) + 1

\* mutant: the window is set by the first increment only
increment_rate_limit_fixed(c, email, window_minutes, t) ==
    IF CacheHas(c, _rate_limit_key(email), t)
    THEN [c EXCEPT ![_rate_limit_key(email)].value = @ + 1]
    ELSE CacheSet(c, _rate_limit_key(email), 1, window_minutes * SecondsPerMinute, t)

\* increment_rate_limit: the cache afterwards
increment_rate_limit(c, email, window_minutes, t) ==
    CacheSet(c, _rate_limit_key(email), RateAttempts(c, email, t) + 1,
             window_minutes * SecondsPerMinute, t)

\* mutant: the counter is set back by one
reset_rate_limit_decrement(c, email) ==
    IF _rate_limit_key(email) \in DOMAIN c /\ c[_rate_limit_key(email)].value > 1
    THEN [c EXCEPT ![_rate_limit_key(email)].value = @ - 1]
    ELSE CacheDelete(c, _rate_limit_key(email))

reset_rate_limit(c, email) == CacheDelete(c, _rate_limit_key(email))

CheckRateLimit(e, m) ==
    /\ cache' = check_rate_limit_cache(cache, e, now)
    /\ last' = Response("check_rate_limit", e, m, 0, "",
                        {check_rate_limit(cache, e, m, now)}, NoMail)
    /\ UNCHANGED <<stored, now, workflowVars, requestVars>>

IncrementRateLimit(e, w) ==
    /\ RateAttempts(cache, e, now) < MaxCount
    /\ cache' = increment_rate_limit(cache, e, w, now)
    /\ last' = Response("increment_rate_limit", e, w, 0, "",
                        {increment_rate_limit_result(cache, e, now)}, NoMail)
    /\ UNCHANGED <<stored, now, workflowVars, requestVars>>

\* (last.nth keeps, as history, the counter value the call found)
ResetRateLimit(e) ==
    /\ cache' = reset_rate_limit(cache, e)
    /\ last' = Response("reset_rate_limit", e, RateAttempts(cache, e, now), 0, "", {}, NoMail)
    /\ UNCHANGED <<stored, now, workflowVars, requestVars>>

\* one minute passes; expired entries are gone
TickLimit ==
    /\ now < MaxLimitTime
    /\ now' = now + 1
    /\ cache' = CachePrune(cache, now')
    /\ last' = Response("tick", 0, 0, 0, "", {}, NoMail)
    /\ UNCHANGED <<stored, workflowVars, requestVars>>

NextLimit ==
    \/ \E h \in TokenHashes, e \in Emails, ttl \in Windows : StoreResetToken(h, e, ttl)
    \/ \E h \in TokenHashes : DeleteResetToken(h)
    \/ \E h \in TokenHashes : IncrementTokenAttempts(h)
    \/ \E e \in Emails, m \in Limits : CheckRateLimit(e, m)
    \/ \E e \in Emails, w \in Windows : IncrementRateLimit(e, w)
    \/ \E e \in Emails : ResetRateLimit(e)
    \/ TickLimit

SpecLimit == Init /\ [][NextLimit]_vars

(* ---------------- concurrent increments of the counters ---------------- *)

\* one registration is raced for, after any number of sequential guesses
RacePayloads == {p \in ValidPayloads : p.email = 1 /\ p.username = 1}

NoneStarted == \A p \in Procs : calls[p] = 0

\* increment_token_attempts: the record is read ...
TIncRead(p, h) ==
    /\ pc[p] = "idle"
    /\ calls[p] < MaxConcCalls
    /\ calls' = [calls EXCEPT ![p] = @ + 1]
    /\ UNCHANGED <<cache, now, last, stored, workflowVars>>
    /\ IF ~get_password_reset_token(cache, h, now) THEN
            /\ loc' = [loc EXCEPT ![p] =
                        [IdleLoc EXCEPT !.op = "increment_token_attempts", !.reg = h]]
            /\ UNCHANGED pc
       ELSE
            /\ loc' = [loc EXCEPT ![p] =
                        [IdleLoc EXCEPT !.op = "increment_token_attempts", !.reg = h,
                                        !.n = cache[_key(h)].value.attempts,
                                        !.pending = cache[_key(h)].value]]
            /\ pc' = [pc EXCEPT ![p] = "token_store"]

\* ... and stored back with attempts + 1; the new value is returned
TIncStore(p) ==
    /\ pc[p] = "token_store"
    /\ UNCHANGED <<now, last, calls, workflowVars>>
    /\ cache' = store_password_reset_token(cache, loc[p].reg,
                    [loc[p].pending EXCEPT !.attempts = @ + 1], ResetTTL, now)
    /\ stored' = [stored EXCEPT ![loc[p].reg] =
                    <<now, ResetTTL, @[3], ExpiryMinute(cache, loc[p].reg, now), @[5], @[6]>>]
    /\ loc' = [loc EXCEPT ![p].n = @ + 1, ![p].pending = NoRec]
    /\ pc' = [pc EXCEPT ![p] = "idle"]

\* increment_rate_limit: attempts = app_cache.get(key) or 0 ...
RIncRead(p, e) ==
    /\ pc[p] = "idle"
    /\ calls[p] < MaxConcCalls
    /\ calls' = [calls EXCEPT ![p] = @ + 1]
    /\ UNCHANGED <<cache, now, last, stored, workflowVars>>
    /\ loc' = [loc EXCEPT ![p] =
                [IdleLoc EXCEPT !.op = "increment_rate_limit", !.reg = e,
                                !.n = RateAttempts(cache, e, now)]]
    /\ pc' = [pc EXCEPT ![p] = "rate_store"]

\* mutant: the value read is stored back without the increment
RIncStoreSame(p, w) ==
    /\ pc[p] = "rate_store"
    /\ UNCHANGED <<now, last, stored, calls, workflowVars>>
    /\ cache' = CacheSet(cache, _rate_limit_key(loc[p].reg), loc[p].n,
                         w * SecondsPerMinute, now)
    /\ UNCHANGED loc
    /\ pc' = [pc EXCEPT ![p] = "idle"]

\* ... attempts += 1; app_cache.set(key, attempts, timeout); return attempts
RIncStore(p, w) ==
    /\ pc[p] = "rate_store"
    /\ UNCHANGED <<now, last, stored, calls, workflowVars>>
    /\ cache' = CacheSet(cache, _rate_limit_key(loc[p].reg), loc[p].n + 1,
                         w * SecondsPerMinute, now)
    /\ loc' = [loc EXCEPT ![p].n = @ + 1]
    /\ pc' = [pc EXCEPT ![p] = "idle"]

\* the one sign_up of the race
RaceSignUp(p) == nextReg = 1 /\ SignUp(p)

\* verify_email calls made one after the other, before the concurrent ones
GuessBefore(code) == NoneStarted /\ VerifyEmail(1, code)

\* the one store of each password-reset record
StoreOnce(h) == ~get_password_reset_token(cache, h, now) /\ StoreResetToken(h, 1, ResetTTL)

NextRace ==
    \/ \E p \in RacePayloads : RaceSignUp(p)
    \/ \E code \in Codes : GuessBefore(code)
    \/ \E p \in Procs, code \in Codes : VStart(p, 1, code)
    \/ \E p \in Procs : VIncRead(p)
    \/ \E p \in Procs : VIncStore(p)
    \/ \E p \in Procs : VGate(p)
    \/ \E p \in Procs : VCheckEmail(p)
    \/ \E p \in Procs : VCheckUsername(p)
    \/ \E p \in Procs : VInsert(p)
    \/ \E p \in Procs : VDelete(p)
    \/ \E h \in TokenHashes : StoreOnce(h)
    \/ \E p \in Procs, h \in TokenHashes : TIncRead(p, h)
    \/ \E p \in Procs : TIncStore(p)
    \/ \E p \in Procs, e \in {1} : RIncRead(p, e)
    \/ \E p \in Procs : RIncStore(p, RegTTL)

SpecRace == Init /\ [][NextRace]_vars

(* ======== events, registrations, attendance and certificates =========== *)

\* who sends an admin request: the event's organizer, an admin, anyone else
Callers == {"organizer", "admin", "student"}

\* payload.student_ids
StudentLists ==
    UNION {[1..n -> Students] : n \in 0..MaxListLen}

\* the outcome of a controller call: the tables afterwards and the response
Outcome(d, status, msg) == [db |-> d, status |-> status, msg |-> msg]

\* mutant: the event is looked up by id only
event_exists(d, e) == d.event[e].status # "none"

\* Event.query.filter_by(id=event_uuid, status='approved').first()
approved_event(d, e) == d.event[e].status = "approved"

\* Registration.query.filter_by(event_id, status='confirmed').count()
confirmed_registrations(d, e) ==
    Cardinality({s \in Students : d.registration[<<e, s>>] = "confirmed"})

\* event.max_participants > 0 and confirmed_registrations >= event.max_participants
EventFull(d, e) ==
    /\ d.event[e].max_participants > 0
    /\ confirmed_registrations(d, e) >= d.event[e].max_participants

\* _create_event_json: the new row has the default status 'pending'
create_event(d, e, max_participants) ==
    Outcome([d EXCEPT !.event[e] =
                [status |-> "pending", max_participants |-> max_participants]],
            201, "Event created successfully. Pending admin approval.")

approve_event(d, e) ==
    IF d.event[e].status = "none" THEN Outcome(d, 404, "Event not found")
    ELSE IF d.event[e].status # "pending"
         THEN Outcome(d, 400, "Event is not pending approval")
    ELSE Outcome([d EXCEPT !.event[e].status = "approved"],
                 200, "Event approved successfully")

register_for_event(d, e, s) ==
    IF ~approved_event(d, e) THEN Outcome(d, 404, "Event not found or not available")
    ELSE IF d.registration[<<e, s>>] = "confirmed"
         THEN Outcome(d, 409, "Already registered for this event")
    ELSE IF d.registration[<<e, s>>] = "cancelled"
         THEN Outcome([d EXCEPT !.registration[<<e, s>>] = "confirmed"],
                      200, "Registration reactivated successfully")
    ELSE IF EventFull(d, e) THEN Outcome(d, 409, "Event is full")
    ELSE Outcome([d EXCEPT !.registration[<<e, s>>] = "confirmed"],
                 201, "Successfully registered for event")

cancel_registration(d, e, s) ==
    IF d.registration[<<e, s>>] # "confirmed"
    THEN Outcome(d, 404, "Registration not found")
    ELSE Outcome([d EXCEPT !.registration[<<e, s>>] = "cancelled"],
                 200, "Registration cancelled successfully")

mark_attendance(d, by, e, s) ==
    IF ~approved_event(d, e) THEN Outcome(d, 404, "Event not found or not approved")
    ELSE IF by \notin {"organizer", "admin"}
         THEN Outcome(d, 403, "Insufficient permissions")
    ELSE IF d.registration[<<e, s>>] # "confirmed"
         THEN Outcome(d, 404, "Student is not registered for this event")
    ELSE IF <<e, s>> \in d.attendance
         THEN Outcome(d, 409, "Attendance already marked for this student")
    ELSE Outcome([d EXCEPT !.attendance = @ \cup {<<e, s>>}],
                 201, "Attendance marked successfully")

\* db.session.add(certificate)
AddCertificate(d, e, s) == [d EXCEPT !.certificate[<<e, s>>] = @ + 1]

\* generate_certificate: the loop over payload.student_ids
RECURSIVE GenerateEach(_, _, _)
GenerateEach(d, e, student_ids) ==
    IF student_ids = << >> THEN d
    ELSE LET s == Head(student_ids)
             d1 == IF <<e, s>> \notin d.attendance THEN d
                   ELSE IF d.certificate[<<e, s>>] > 0 THEN d
                   ELSE AddCertificate(d, e, s)
         IN GenerateEach(d1, e, Tail(student_ids))

generate_certificate(d, by, e, student_ids) ==
    IF ~approved_event(d, e) THEN Outcome(d, 404, "Event not found or not approved")
    ELSE IF by # "organizer" THEN Outcome(d, 403, "Insufficient permissions")
    ELSE Outcome(GenerateEach(d, e, student_ids),
                 201, "Certificates generated successfully")

\* the attendees of the event that have no certificate yet, in some order
RECURSIVE Listed(_)
Listed(S) ==
    IF S = {} THEN << >>
    ELSE LET s == CHOOSE x \in S : TRUE IN <<s>> \o Listed(S \ {s})

Attendees(d, e) ==
    Listed({s \in Students : <<e, s>> \in d.attendance /\ d.certificate[<<e, s>>] = 0})

\* bulk_generate_certificates: the loop over student_ids; failing are the
\* students for whom certificate_generator.generate_certificate raises
RECURSIVE BulkEach(_, _, _, _)
BulkEach(d, e, student_ids, failing) ==
    IF student_ids = << >> THEN d
    ELSE LET s == Head(student_ids)
             d1 == IF d.registration[<<e, s>>] # "confirmed" THEN d
                   ELSE IF s \in failing THEN d
                   ELSE AddCertificate(d, e, s)
         IN BulkEach(d1, e, Tail(student_ids), failing)

bulk_generate_certificates(d, by, e, generate_for_all_attendees, student_ids, failing) ==
    IF ~approved_event(d, e) THEN Outcome(d, 404, "Event not found or not approved")
    ELSE IF by # "organizer" THEN Outcome(d, 403, "Insufficient permissions")
    ELSE LET ids == IF generate_for_all_attendees THEN Attendees(d, e) ELSE student_ids
         IN IF ids = << >>
            THEN Outcome(d, 400, "No eligible students found for certificate generation")
            ELSE Outcome(BulkEach(d, e, ids, failing),
                         201, "Bulk certificate generation completed")

\* bound: at most MaxCertificates certificate rows per (event, student)
WithinRows(d) == \A k \in EventIds \X Students : d.certificate[k] <= MaxCertificates

\* the response of an outcome
Reply(op, e, s, out) == Response(op, e, s, out.status, out.msg, {}, NoMail)

\* what the event controllers leave alone
authVars == <<cache, users, now, nextReg, verifyCalls, pc, loc, calls, stored>>

CreateEvent(e, m) ==
    /\ db.event[e].status = "none"
    /\ \A x \in EventIds : x < e => db.event[x].status # "none"
    /\ db' = create_event(db, e, m).db
    /\ last' = Reply("create_event", e, 0, create_event(db, e, m))
    /\ UNCHANGED authVars

ApproveEvent(e) ==
    /\ db' = approve_event(db, e).db
    /\ last' = Reply("approve_event", e, 0, approve_event(db, e))
    /\ UNCHANGED authVars

RegisterForEvent(e, s) ==
    /\ db' = register_for_event(db, e, s).db
    /\ last' = Reply("register_for_event", e, s, register_for_event(db, e, s))
    /\ UNCHANGED authVars

CancelRegistration(e, s) ==
    /\ db' = cancel_registration(db, e, s).db
    /\ last' = Reply("cancel_registration", e, s, cancel_registration(db, e, s))
    /\ UNCHANGED authVars

MarkAttendance(by, e, s) ==
    /\ db' = mark_attendance(db, by, e, s).db
    /\ last' = Reply("mark_attendance", e, s, mark_attendance(db, by, e, s))
    /\ UNCHANGED authVars

GenerateCertificate(by, e, student_ids) ==
    /\ student_ids # << >>
    /\ db' = generate_certificate(db, by, e, student_ids).db
    /\ last' = Reply("generate_certificate", e, 0,
                     generate_certificate(db, by, e, student_ids))
    /\ UNCHANGED authVars

BulkGenerateCertificates(by, e, all, student_ids, failing) ==
    /\ WithinRows(bulk_generate_certificates(db, by, e, all, student_ids, failing).db)
    /\ db' = bulk_generate_certificates(db, by, e, all, student_ids, failing).db
    /\ last' = Reply("bulk_generate_certificates", e, 0,
                     bulk_generate_certificates(db, by, e, all, student_ids, failing))
    /\ UNCHANGED authVars

NextEvent ==
    \/ \E e \in EventIds, m \in 0..MaxParticipants : CreateEvent(e, m)
    \/ \E e \in EventIds : ApproveEvent(e)
    \/ \E e \in EventIds, s \in Students : RegisterForEvent(e, s)
    \/ \E e \in EventIds, s \in Students : CancelRegistration(e, s)
    \/ \E by \in Callers, e \in EventIds, s \in Students : MarkAttendance(by, e, s)
    \/ \E by \in Callers, e \in EventIds, ids \in StudentLists :
            GenerateCertificate(by, e, ids)
    \/ \E by \in Callers, e \in EventIds, all \in BOOLEAN, ids \in StudentLists,
          failing \in SUBSET Students :
            BulkGenerateCertificates(by, e, all, ids, failing)

SpecEvent == Init /\ [][NextEvent]_vars

(* ============================== claims ================================= *)

Live(r) == get_pending_registration(cache, r, now)

Rec(r) == cache[PendingKey(r)].value

Issued(r) == r < nextReg

GoneMsgs == {"invalid or expired verification", "invalid or expired registration"}

\* a verify or resend step on a reg_id whose record is absent answers
\* 'invalid or expired' and the record stays absent
GoneAnswers ==
    \A r \in RegIds :
        (Issued(r) /\ ~Live(r) /\ last'.reg = r /\ last'.op \in {"verify_email", "resend"})
            => (last'.msg \in GoneMsgs /\ PendingKey(r) \notin DOMAIN cache')

(* C1: attempt ceiling. Of the verify_email calls with a wrong code made on a
   pending registration, calls 1..10 answer 'invalid code' and the 11th answers
   'too many attempts' and leaves the record absent; every further verify or
   resend call on that reg_id answers 'invalid or expired'. *)
C1_AttemptCeiling ==
    [][ /\ \A r \in RegIds, code \in Codes :
            (/\ last'.op = "verify_email" /\ last'.reg = r
             /\ Live(r)
             /\ VerifyEmail(r, code)
             /\ Rec(r).code_hash # hash_code(code, r)) =>
                /\ verifyCalls[r] + 1 <= AttemptCeiling + 1
                /\ (verifyCalls[r] + 1 <= AttemptCeiling =>
                        /\ last'.msg = "invalid code"
                        /\ PendingKey(r) \in DOMAIN cache')
                /\ (verifyCalls[r] + 1 = AttemptCeiling + 1 =>
                        /\ last'.msg = "too many attempts"
                        /\ PendingKey(r) \notin DOMAIN cache')
        /\ GoneAnswers ]_vars

C1_Witness ==
    /\ last.op = "verify_email"
    /\ last.nth = AttemptCeiling + 1
    /\ last.msg = "too many attempts"
    /\ PendingKey(last.reg) \notin DOMAIN cache

(* C2: resend ceiling. On a pending registration on which no verify call has
   been made, the 4th resend call after 3 successful ones is refused with
   'maximum resend attempts exceeded'. *)
C2_ResendCeiling ==
    (last.op = "resend" /\ last.nth >= ResendCeiling + 1 /\ verifyCalls[last.reg] = 0)
        => last.msg = "maximum resend attempts exceeded"

(* C3: a verify_email call with a code whose salted hash differs from the
   stored code_hash, on a record with attempts below 10, answers 'invalid code',
   keeps the record with attempts increased by exactly 1 and every other field
   unchanged, and creates no durable user. *)
C3_WrongCodeKeepsRecord ==
    [][ \A r \in RegIds, code \in Codes :
            (/\ last'.op = "verify_email" /\ last'.reg = r
             /\ Live(r)
             /\ VerifyEmail(r, code)
             /\ Rec(r).attempts < AttemptCeiling
             /\ Rec(r).code_hash # hash_code(code, r)) =>
                /\ last'.msg = "invalid code"
                /\ PendingKey(r) \in DOMAIN cache'
                /\ cache'[PendingKey(r)].value = [Rec(r) EXCEPT !.attempts = @ + 1]
                /\ users' = users ]_vars

C3_Witness ==
    /\ last.op = "verify_email"
    /\ last.msg = "invalid code"
    /\ Live(last.reg)
    /\ Rec(last.reg).attempts = last.nth
    /\ last.nth >= 2

HoldsIdentity(us, pending) ==
    \E i \in DOMAIN us :
        \/ us[i].email = pending.email
        \/ (pending.username # 0 /\ us[i].username = pending.username)

(* C4: a verify_email call with the correct code on a live record with attempts
   below 10, when no durable user holds the record's email or username, creates
   exactly one durable user carrying the record's email, username and
   password_hash and deletes the record; every later verify or resend on that
   reg_id answers 'invalid or expired'. *)
C4_VerifyConsumes ==
    [][ /\ \A r \in RegIds, code \in Codes :
            (/\ last'.op = "verify_email" /\ last'.reg = r
             /\ Live(r)
             /\ VerifyEmail(r, code)
             /\ Rec(r).attempts < AttemptCeiling
             /\ Rec(r).code_hash = hash_code(code, r)
             /\ ~HoldsIdentity(users, Rec(r))) =>
                /\ Len(users') = Len(users) + 1
                /\ SubSeq(users', 1, Len(users)) = users
                /\ users'[Len(users')].email = Rec(r).email
                /\ users'[Len(users')].username = Rec(r).username
                /\ users'[Len(users')].password_hash = Rec(r).password_hash
                /\ PendingKey(r) \notin DOMAIN cache'
                /\ last'.status = 200
        /\ GoneAnswers ]_vars

C4_Witness ==
    /\ last.op = "verify_email"
    /\ last.status = 200
    /\ Len(users) = 2
    /\ users[2].username = 1
    /\ PendingKey(last.reg) \notin DOMAIN cache

(* C5 as written: a verify_email call with the correct code, when a durable
   user already holds the record's email or non-empty username, fails with an
   'already taken' conflict, creates no user and deletes the record. *)
C5_ConflictAtVerify_AsWritten ==
    [][ \A r \in RegIds, code \in Codes :
            (/\ last'.op = "verify_email" /\ last'.reg = r
             /\ Live(r)
             /\ VerifyEmail(r, code)
             /\ Rec(r).code_hash = hash_code(code, r)
             /\ HoldsIdentity(users, Rec(r))) =>
                /\ last'.status = 409
                /\ last'.msg \in {"Email already taken", "Username already taken"}
                /\ users' = users
                /\ PendingKey(r) \notin DOMAIN cache' ]_vars

(* C5 amended: the same, for a record whose attempts is below 10 (at 10 the
   attempt gate answers 'too many attempts' before the code is compared). *)
C5_ConflictAtVerify ==
    [][ \A r \in RegIds, code \in Codes :
            (/\ last'.op = "verify_email" /\ last'.reg = r
             /\ Live(r)
             /\ VerifyEmail(r, code)
             /\ Rec(r).attempts < AttemptCeiling
             /\ Rec(r).code_hash = hash_code(code, r)
             /\ HoldsIdentity(users, Rec(r))) =>
                /\ last'.status = 409
                /\ last'.msg \in {"Email already taken", "Username already taken"}
                /\ users' = users
                /\ PendingKey(r) \notin DOMAIN cache' ]_vars

C5_Witness ==
    /\ last.op = "verify_email"
    /\ last.status = 409
    /\ last.msg = "Username already taken"
    /\ PendingKey(last.reg) \notin DOMAIN cache
    /\ Len(users) = 1

PendingWithEmail(email) == \E r \in RegIds : Live(r) /\ Rec(r).email = email

Finished(p) == pc[p] = "idle" /\ loc[p].op = "verify_email"

\* the request submitted the code of the record it read and passed the gate
SubmittedCorrect(p) ==
    /\ loc[p].pending # NoRec
    /\ loc[p].pending.code_hash = hash_code(loc[p].code, loc[p].reg)
    /\ loc[p].n <= AttemptCeiling

(* C6: race-safe uniqueness. Under every interleaving of concurrent
   verify_email calls, no two durable users have the same email; a call that
   submitted the correct code either created the user (200) or failed with
   Conflict (409), and two calls for the same email never both succeed. *)
C6_RaceSafeUniqueness ==
    /\ \A i, j \in DOMAIN users : users[i].email = users[j].email => i = j
    /\ \A p \in Procs :
        (Finished(p) /\ SubmittedCorrect(p)) => loc[p].status \in {200, 409}
    /\ \A p, q \in Procs :
        (/\ p # q /\ Finished(p) /\ Finished(q)
         /\ loc[p].status = 200 /\ loc[q].status = 200)
            => loc[p].pending.email # loc[q].pending.email

C6_Witness ==
    \E p, q \in Procs :
        /\ Finished(p) /\ Finished(q)
        /\ loc[p].reg # loc[q].reg
        /\ loc[p].pending.email = loc[q].pending.email
        /\ loc[p].status = 200
        /\ loc[q].msg = "conflict with existing data"
        /\ Len(users) = 1

(* C7 as written: a sign_up call with an email that has a live pending
   registration fails with Conflict ('Email already taken') and leaves the
   cache unchanged. *)
C7_SecondSignUp_AsWritten ==
    [][ \A p \in ValidPayloads :
            (/\ last'.op = "sign_up"
             /\ SignUp(p)
             /\ PendingWithEmail(Lower(p.email))) =>
                /\ last'.status = 409
                /\ last'.msg = "Email already taken"
                /\ cache' = cache ]_vars

(* C7 amended: a sign_up call with an email that has a live pending
   registration, when no durable user holds the email or the username, succeeds:
   it stores a second pending record under a new reg_id and leaves the first
   pending record (and every other cache entry) unchanged. *)
C7_SecondSignUp ==
    [][ \A p \in ValidPayloads :
            (/\ last'.op = "sign_up"
             /\ SignUp(p)
             /\ PendingWithEmail(Lower(p.email))
             /\ ~email_exists(users, Lower(p.email))
             /\ ~(p.username # 0 /\ username_exists(users, p.username))) =>
                /\ last'.status = 200
                /\ PendingKey(nextReg) \notin DOMAIN cache
                /\ DOMAIN cache' = DOMAIN cache \cup {PendingKey(nextReg)}
                /\ cache'[PendingKey(nextReg)].value.email = Lower(p.email)
                /\ \A k \in DOMAIN cache : cache'[k] = cache[k] ]_vars

C7_Witness ==
    /\ last.op = "sign_up"
    /\ last.status = 200
    /\ \E r \in RegIds \ {last.reg} :
            /\ Live(r) /\ Live(last.reg)
            /\ Rec(r).email = Rec(last.reg).email

(* C8: a sign_up call rejected for a validation error or because the email or
   username belongs to a durable user leaves the cache and the durable users as
   they were and sends no email. *)
C8_RejectedSignUpFrame ==
    [][ \A p \in Payloads :
            (/\ last'.op = "sign_up"
             /\ SignUp(p)
             /\ \/ p.email = 0 \/ p.firstname = 0 \/ p.password = 0
                \/ email_exists(users, Lower(p.email))
                \/ (p.username # 0 /\ username_exists(users, p.username))) =>
                /\ last'.status \in {400, 409}
                /\ cache' = cache
                /\ users' = users
                /\ last'.mail = NoMail ]_vars

C8_Witness ==
    /\ last.op = "sign_up"
    /\ last.status = 409
    /\ last.msg = "Username already taken"
    /\ DOMAIN cache # {}

(* C9: no cache entry holds a plaintext verification code, only its hash salted
   with the reg_id; no response of sign_up or resend contains the code; the
   code goes out only in the email. *)
C9_NoPlaintext ==
    /\ \A r \in RegIds :
        PendingKey(r) \in DOMAIN cache =>
            /\ Rec(r).code_hash \notin Codes
            /\ \E code \in Codes : Rec(r).code_hash = hash_code(code, r)
            /\ {Rec(r).email, Rec(r).firstname, Rec(r).lastname, Rec(r).username,
                Rec(r).password_hash, Rec(r).attempts} \cap Codes = {}
    /\ last.op \in {"sign_up", "resend"} =>
            /\ last.data \cap Codes = {}
            /\ (last.status = 200 => last.mail[2] \in Codes)

C9_Witness ==
    /\ last.op = "resend"
    /\ last.status = 200
    /\ Live(last.reg)
    /\ Rec(last.reg).code_hash = hash_code(last.mail[2], last.reg)
    /\ Rec(last.reg).attempts = 2

(* C10: TTL expiry. A record stored at time t with ttl_minutes (15, or the
   password-reset ttl) and not stored again or deleted is returned by get at
   every time before t + ttl_minutes and is absent at every time after it. *)
C10_TTLExpiry ==
    \A h \in TokenHashes :
        stored[h][2] # 0 =>
            /\ (now < stored[h][1] + stored[h][2] =>
                    /\ get_password_reset_token(cache, h, now)
                    /\ (last.op = "get" /\ last.reg = h => last.msg = "found"))
            /\ (now > stored[h][1] + stored[h][2] =>
                    /\ ~get_password_reset_token(cache, h, now)
                    /\ (last.op = "get" /\ last.reg = h => last.msg = "absent"))

C10_Witness ==
    \E h \in TokenHashes :
        /\ stored[h][2] = RegTTL
        /\ stored[h][1] > 0
        /\ now = stored[h][1] + RegTTL + 1
        /\ last.op = "get" /\ last.reg = h /\ last.msg = "absent"

(* C11: idempotent deletion. Deleting a record key that is absent (never
   stored, expired or already deleted) leaves the whole store unchanged, so a
   delete right after a delete of the same key yields the state of a single
   delete. *)
C11_IdempotentDelete ==
    [][\A h \in TokenHashes :
        /\ (last'.op = "delete" /\ last'.reg = h
                /\ ~get_password_reset_token(cache, h, now)) => cache' = cache
        /\ (last'.op = "delete" /\ last'.reg = h /\ last'.nth = 2) => cache' = cache
        /\ delete_password_reset_token(delete_password_reset_token(cache, h), h)
                = delete_password_reset_token(cache, h)]_vars

\* a second delete in a row, with counters in the cache and the key once stored
C11_Witness ==
    /\ last.op = "delete" /\ last.nth = 2
    /\ \E e \in Emails : RateAttempts(cache, e, now) > 0
    /\ now > 0

(* C12: attempts never decrease. For every reg_id, across any sequence and
   any interleaving of verify_email and resend_verification_code calls, the
   attempts value stored in the record never decreases from one state to the
   next while the record exists. *)
C12_AttemptsNeverDecrease ==
    [][\A r \in RegIds :
        (Live(r) /\ Live(r)') => Rec(r)'.attempts >= Rec(r).attempts]_vars

\* the answers of verify_email that follow its delete_pending_registration
DeletingAnswers ==
    {"Email verified and account created", "too many attempts",
     "Email already taken", "Username already taken"}

(* C13: no orphaned record after a terminal outcome. Once verify_email has
   deleted the record of a reg_id (success, too many attempts, conflict at
   verify), no later state holds a pending record under that reg_id, also
   when a resend_verification_code or another verify_email call on the same
   reg_id runs concurrently with the deleting call. *)
C13_NoOrphanAfterTerminal ==
    \A p \in Procs :
        (pc[p] = "idle" /\ loc[p].op = "verify_email" /\ loc[p].msg \in DeletingAnswers)
            => ~get_pending_registration(cache, loc[p].reg, now)

\* the counter value held for an identity, 0 when the key is absent
CounterValue(c, e) ==
    IF _rate_limit_key(e) \in DOMAIN c THEN c[_rate_limit_key(e)].value ELSE 0

(* C14: check_rate_limit result. For every identity, counter value c (0 when
   the key is absent) and max_attempts m, check_rate_limit returns (true, 0)
   exactly when c >= m and otherwise returns (false, m - c). *)
C14_CheckResult ==
    last.op = "check_rate_limit" =>
        LET c == CounterValue(cache, last.reg)
            m == last.nth
        IN  /\ (c >= m) => last.data = {<<TRUE, 0>>}
            /\ (c < m) => last.data = {<<FALSE, m - c>>}

\* a check at the boundary c = m, and so limited
C14_Witness ==
    /\ last.op = "check_rate_limit"
    /\ last.nth > 0
    /\ CounterValue(cache, last.reg) = last.nth
    /\ last.data = {<<TRUE, 0>>}

(* C15: check_rate_limit is read-only. A call changes neither the counter
   value nor its expiry nor any other cache entry, so checks never move an
   identity closer to the limited state nor keep it there longer. *)
C15_CheckReadOnly ==
    [][last'.op = "check_rate_limit" =>
        /\ cache' = cache
        /\ \A e \in Emails, m \in Limits :
            check_rate_limit(cache', e, m, now') = check_rate_limit(cache, e, m, now)]_vars

\* a check of an identity with a running counter, beside a stored record
C15_Witness ==
    /\ last.op = "check_rate_limit"
    /\ CounterValue(cache, last.reg) > 0
    /\ \E h \in TokenHashes : get_password_reset_token(cache, h, now)
    /\ Cardinality(DOMAIN cache) = NumEmails + 1

(* C16: sliding window. Each increment_rate_limit(identity, w) raises the
   counter by exactly 1 (from 0 when absent or expired), returns the new
   value, and sets the counter's expiry to w minutes after the call whatever
   its previous expiry was; a counter incremented again before it expires
   therefore stays. *)
C16_SlidingWindow ==
    [][last'.op = "increment_rate_limit" =>
        LET e == last'.reg
            w == last'.nth
            k == _rate_limit_key(e)
        IN  /\ k \in DOMAIN cache'
            /\ cache'[k].value = CounterValue(cache, e) + 1
            /\ last'.data = {cache'[k].value}
            /\ cache'[k].expires = (now + w) * SecondsPerMinute
            /\ \A t \in now..(now + w - 1) : RateAttempts(cache', e, t) = cache'[k].value
            /\ RateAttempts(cache', e, now + w) = 0]_vars

\* a second increment, made later than the first, with its own window
C16_Witness ==
    /\ last.op = "increment_rate_limit"
    /\ last.data = {2}
    /\ now > 0
    /\ cache[_rate_limit_key(last.reg)].expires = (now + last.nth) * SecondsPerMinute

(* C17: counter reset. The rate-limit counter of an identity goes down (and
   so back to zero) only through reset_rate_limit of that identity or the
   expiry of its window; right after reset_rate_limit(identity),
   check_rate_limit(identity, m) returns (false, m) for every m > 0. *)
C17_CounterReset ==
    [][\A e \in Emails :
        /\ CounterValue(cache', e) < CounterValue(cache, e) =>
            \/ last'.op = "reset_rate_limit" /\ last'.reg = e
            \/ /\ last'.op = "tick"
               /\ cache[_rate_limit_key(e)].expires <= now' * SecondsPerMinute
        /\ (last'.op = "reset_rate_limit" /\ last'.reg = e) =>
            \A m \in Limits \ {0} : check_rate_limit(cache', e, m, now') = <<FALSE, m>>]_vars

\* the reset of a limited identity, while another identity's counter runs on
C17_Witness ==
    /\ last.op = "reset_rate_limit"
    /\ last.nth = MaxCount
    /\ CounterValue(cache, last.reg) = 0
    /\ \E e \in Emails : CounterValue(cache, e) > 0

\* the entries of the cache under one key prefix
Family(c, prefix) == [k \in {x \in DOMAIN c : x[1] = prefix} |-> c[k]]

RecordOps == {"store", "delete", "increment"}

CounterOps == {"check_rate_limit", "increment_rate_limit", "reset_rate_limit"}

(* C18: the rate limiter is independent of the record. Storing, re-storing,
   deleting or expiring a password-reset record never changes a rate-limit
   counter or its expiry; incrementing, resetting or expiring a counter never
   changes a record; the two key families never collide. *)
C18_Independent ==
    [][/\ \A h \in TokenHashes, e \in Emails : _key(h) # _rate_limit_key(e)
       /\ last'.op \in RecordOps =>
            Family(cache', "password_reset_rate_limit") =
                Family(cache, "password_reset_rate_limit")
       /\ last'.op \in CounterOps =>
            Family(cache', "password_reset") = Family(cache, "password_reset")
       /\ last'.op = "tick" =>
            \A k \in DOMAIN cache :
                cache[k].expires > now' * SecondsPerMinute =>
                    k \in DOMAIN cache' /\ cache'[k] = cache[k]]_vars

\* a record has just expired and a counter set before that is still running
C18_Witness ==
    /\ last.op = "tick"
    /\ \E h \in TokenHashes :
        /\ stored[h][2] # 0
        /\ now = stored[h][1] + stored[h][2]
        /\ ~get_password_reset_token(cache, h, now)
    /\ \E e \in Emails : CounterValue(cache, e) = 2

\* the answers of verify_email to a code that passed the comparison
AcceptedAnswers ==
    {"Email verified and account created", "Email already taken",
     "Username already taken"}

(* C19: resend replaces the code and refreshes the TTL. After a successful
   resend_verification_code at time t the record's code_hash is the hash of
   the newly generated code salted with the same reg_id and the record
   expires at t + 15 minutes whatever its earlier expiry; verify_email with
   any other code (the previously issued one, when it differs) then answers
   'invalid code', and the new code is accepted. *)
C19_ResendReplacesCode ==
    [][\A r \in RegIds :
        /\ (last'.op = "resend" /\ last'.reg = r /\ last'.status = 200) =>
            /\ last'.mail[2] \in Codes
            /\ PendingKey(r) \in DOMAIN cache'
            /\ cache'[PendingKey(r)].value.code_hash = hash_code(last'.mail[2], r)
            /\ cache'[PendingKey(r)].expires = (now + RegTTL) * SecondsPerMinute
            /\ \A t \in now..(now + RegTTL - 1) : get_pending_registration(cache', r, t)
            /\ ~get_pending_registration(cache', r, now + RegTTL)
        /\ \A code \in Codes :
            (/\ last.op = "resend" /\ last.reg = r /\ last.status = 200
             /\ last'.op = "verify_email" /\ last'.reg = r
             /\ VerifyEmail(r, code)) =>
                /\ code # last.mail[2] => last'.msg = "invalid code"
                /\ code = last.mail[2] => last'.msg \in AcceptedAnswers]_vars

\* a resend made after time has passed since the record was first stored
C19_Witness ==
    /\ last.op = "resend" /\ last.status = 200
    /\ now > 0
    /\ Live(last.reg)
    /\ cache[PendingKey(last.reg)].expires = (now + RegTTL) * SecondsPerMinute
    /\ Rec(last.reg).code_hash = hash_code(last.mail[2], last.reg)

(* C20: no email enumeration on forgot-password. The request is answered
   with the same generic success response, carrying no data, whether or not
   the email belongs to a durable user. *)
C20_NoEnumeration ==
    [][last'.op = "forgot_password" =>
        /\ last'.status = 200
        /\ last'.data = {}]_vars

(* C21: the store is last-write-wins on value and TTL. After store(k, r1,
   ttl1) at t1 and store(k, r2, ttl2) at t2 > t1, get(k) returns r2 at every
   time before t2 + ttl2 and absent after it, whatever t1 + ttl1 is. *)
C21_LastWriteWins ==
    \A h \in TokenHashes :
        stored[h][2] # 0 =>
            /\ now < stored[h][1] + stored[h][2] =>
                /\ get_password_reset_token(cache, h, now)
                /\ cache[_key(h)].value.email = stored[h][3]
                /\ cache[_key(h)].value.user_id = stored[h][3]
                /\ cache[_key(h)].value.token_hash = h
            /\ now > stored[h][1] + stored[h][2] =>
                ~get_password_reset_token(cache, h, now)

\* a second store with the shorter ttl: the record is gone although the one it
\* replaced would still be live
C21_Witness ==
    \E h \in TokenHashes :
        /\ stored[h][2] = RegTTL
        /\ stored[h][1] > 0
        /\ now = stored[h][1] + RegTTL + 1
        /\ stored[h][4] > now
        /\ last.op = "get" /\ last.reg = h /\ last.msg = "absent"

\* request p has returned from a call of op on key
Returned(p, op, key) == pc[p] = "idle" /\ loc[p].op = op /\ loc[p].reg = key

\* p and q have each made one concurrent call, and no other request has
TwoCalls(p, q) ==
    /\ p # q
    /\ calls[p] = 1 /\ calls[q] = 1
    /\ \A r \in Procs \ {p, q} : calls[r] = 0

(* C22: lost update on attempts. The increment is a separate read, add and
   store: two concurrent wrong-code verify_email calls on one record (and two
   increment_token_attempts or increment_rate_limit calls on one key) leave
   the counter grown by 2 or, when both read the same value, by only 1; so
   more than 10 code comparisons can be made against one pending
   registration. *)
C22_LostUpdate ==
    \A p, q \in Procs :
        TwoCalls(p, q) =>
        /\ \A e \in Emails :
            (Returned(p, "increment_rate_limit", e)
                /\ Returned(q, "increment_rate_limit", e)) =>
                /\ CounterValue(cache, e) \in {1, 2}
                /\ loc[p].n = loc[q].n => CounterValue(cache, e) = 1
                /\ loc[p].n # loc[q].n => CounterValue(cache, e) = 2
        /\ \A h \in TokenHashes :
            (Returned(p, "increment_token_attempts", h)
                /\ Returned(q, "increment_token_attempts", h)
                /\ loc[p].n > 0 /\ loc[q].n > 0) =>
                /\ get_password_reset_token(cache, h, now)
                /\ cache[_key(h)].value.attempts \in {1, 2}
                /\ loc[p].n = loc[q].n => cache[_key(h)].value.attempts = 1
                /\ loc[p].n # loc[q].n => cache[_key(h)].value.attempts = 2
        /\ \A r \in RegIds :
            (Returned(p, "verify_email", r) /\ Returned(q, "verify_email", r)
                /\ loc[p].msg = "invalid code" /\ loc[q].msg = "invalid code"
                /\ Live(r)) =>
                /\ Rec(r).attempts \in {verifyCalls[r] + 1, verifyCalls[r] + 2}
                /\ Rec(r).attempts <= AttemptCeiling
                /\ loc[p].n = loc[q].n => Rec(r).attempts = verifyCalls[r] + 1
                /\ loc[p].n # loc[q].n => Rec(r).attempts = verifyCalls[r] + 2

\* nine guesses one after the other, then two concurrent ones: eleven codes
\* compared, and the record still live with attempts = 10
C22_Witness ==
    \E p, q \in Procs :
        /\ TwoCalls(p, q)
        /\ Returned(p, "verify_email", 1) /\ Returned(q, "verify_email", 1)
        /\ loc[p].msg = "invalid code" /\ loc[q].msg = "invalid code"
        /\ verifyCalls[1] = AttemptCeiling - 1
        /\ Live(1)
        /\ Rec(1).attempts = AttemptCeiling

(* C23: increment_token_attempts preserves the existing TTL. A record stored
   at minute t with ttl_minutes = T is absent after t + T, however many
   increment_token_attempts calls were made before t + T. *)
C23_IncrementKeepsExpiry ==
    \A h \in TokenHashes :
        (stored[h][6] # 0 /\ now > stored[h][5] + stored[h][6]) =>
            ~get_password_reset_token(cache, h, now)

\* the answers of verify_email given after the code comparison
ComparedAnswers == AcceptedAnswers \cup {"invalid code"}

(* C24: the attempt gate precedes the code comparison. A verify_email call on
   a record whose stored attempts is already 10 answers 'too many attempts',
   deletes the record and creates no user, even with the correct code; so in a
   sequential run at most 10 codes are compared against one reg_id. *)
C24_GateBeforeComparison ==
    [][ \A r \in RegIds :
            (last'.op = "verify_email" /\ last'.reg = r /\ Live(r)) =>
                /\ Rec(r).attempts = AttemptCeiling =>
                    /\ last'.msg = "too many attempts"
                    /\ PendingKey(r) \notin DOMAIN cache'
                    /\ users' = users
                /\ last'.msg \in ComparedAnswers =>
                    /\ Rec(r).attempts < AttemptCeiling
                    /\ last'.nth <= AttemptCeiling ]_vars

\* the 11th call on a record carried the correct code and was refused
C24_Witness ==
    /\ last.op = "verify_email"
    /\ last.msg = "too many attempts"
    /\ last.hit
    /\ last.nth = AttemptCeiling + 1
    /\ PendingKey(last.reg) \notin DOMAIN cache
    /\ users = <<>>

(* C25: resend is gated on the counter that verify_email increments. A
   resend_verification_code call on a live record is refused with 'maximum
   resend attempts exceeded' exactly when the record's attempts is at least
   3, and succeeds otherwise; attempts is the number of verify_email calls
   made on the record, so after 3 of them no new code is issued, and before
   that a resend succeeds whatever the number of earlier resends. *)
C25_ResendGate ==
    [][ \A r \in RegIds :
            (last'.op = "resend" /\ last'.reg = r /\ Live(r)) =>
                /\ Rec(r).attempts = verifyCalls[r]
                /\ Rec(r).attempts >= ResendCeiling =>
                    /\ last'.msg = "maximum resend attempts exceeded"
                    /\ last'.mail = NoMail
                    /\ cache' = cache
                /\ Rec(r).attempts < ResendCeiling =>
                    /\ last'.status = 200
                    /\ last'.msg = "Verification code resent"
                    /\ last'.mail # NoMail ]_vars

\* a resend refused on a record with exactly 3 verify_email calls and no
\* resend before it
C25_Witness ==
    /\ last.op = "resend"
    /\ last.msg = "maximum resend attempts exceeded"
    /\ last.nth = 1
    /\ Live(last.reg)
    /\ Rec(last.reg).attempts = ResendCeiling
    /\ verifyCalls[last.reg] = ResendCeiling

\* the fields of a pending record that resend does not write
Captured(rec) ==
    <<rec.attempts, rec.email, rec.firstname, rec.lastname, rec.username,
      rec.password_hash>>

(* C26: resend frame. A resend_verification_code call, accepted or refused,
   leaves the record's attempts, email, firstname, lastname, username and
   password_hash unchanged, creates no user and touches no record under
   another reg_id; a refused one also leaves code_hash and the expiry
   unchanged. *)
C26_ResendFrame ==
    [][ \A r \in RegIds :
            (last'.op = "resend" /\ last'.reg = r) =>
                /\ users' = users
                /\ DOMAIN cache' = DOMAIN cache
                /\ \A k \in DOMAIN cache \ {PendingKey(r)} : cache'[k] = cache[k]
                /\ Live(r) =>
                    /\ PendingKey(r) \in DOMAIN cache'
                    /\ Captured(cache'[PendingKey(r)].value) = Captured(Rec(r))
                /\ last'.status # 200 => cache' = cache ]_vars

\* an accepted resend on a record with verify_email attempts recorded, while
\* another registration is pending
C26_Witness ==
    /\ last.op = "resend" /\ last.status = 200
    /\ Live(last.reg)
    /\ Rec(last.reg).attempts = ResendCeiling - 1
    /\ \E r \in RegIds \ {last.reg} : Live(r)

(* C27: increment_token_attempts on an absent record. With no live record
   under the token hash (never stored, deleted or expired) the call returns 0
   and creates no cache entry; with a live record it returns the stored
   attempts plus 1 and persists exactly that value. *)
C27_IncrementAbsent ==
    [][ \A h \in TokenHashes :
            (last'.op = "increment" /\ last'.reg = h) =>
                IF get_password_reset_token(cache, h, now)
                THEN /\ last'.nth = cache[_key(h)].value.attempts + 1
                     /\ get_password_reset_token(cache', h, now')
                     /\ cache'[_key(h)].value =
                            [cache[_key(h)].value EXCEPT !.attempts = last'.nth]
                ELSE /\ last'.nth = 0
                     /\ cache' = cache
                     /\ ~get_password_reset_token(cache', h, now') ]_vars

\* an increment on a record that was stored and has expired returned 0
C27_Witness ==
    /\ last.op = "increment"
    /\ last.nth = 0
    /\ stored[last.reg][2] # 0
    /\ now >= stored[last.reg][1] + stored[last.reg][2]
    /\ ~get_password_reset_token(cache, last.reg, now)

(* C28: event capacity is never exceeded. For every approved event with
   max_participants > 0, after any sequence of register_for_event and
   cancel_registration calls, the number of 'confirmed' registrations of the
   event is at most max_participants. *)
C28_CapacityRespected ==
    \A e \in EventIds :
        (approved_event(db, e) /\ db.event[e].max_participants > 0) =>
            confirmed_registrations(db, e) <= db.event[e].max_participants

(* C29: certificates only for attendees, one each. Every certificate row for
   (event, student) has an attendance row with attended = true, and there is
   at most one certificate row per (event, student). *)
C29_CertificatesForAttendees ==
    \A k \in EventIds \X Students :
        db.certificate[k] > 0 =>
            /\ k \in db.attendance
            /\ db.certificate[k] = 1

\* the rows a step has created
NewRows(d, d2, e) ==
    \/ \E s \in Students :
        \/ d.registration[<<e, s>>] = "none" /\ d2.registration[<<e, s>>] # "none"
        \/ d2.certificate[<<e, s>>] > d.certificate[<<e, s>>]
        \/ <<e, s>> \in d2.attendance \ d.attendance

(* C30: approval gates participation. approve_event sets an event's status
   to 'approved' only when it is 'pending' and otherwise fails, leaving the
   status unchanged; register_for_event, mark_attendance and
   generate_certificate create a row only for an event that is 'approved'
   when the call is made. *)
C30_ApprovalGates ==
    [][ \A e \in EventIds :
            /\ (last'.op = "approve_event" /\ last'.reg = e) =>
                IF db.event[e].status = "pending"
                THEN db'.event[e].status = "approved" /\ last'.status = 200
                ELSE db' = db /\ last'.status >= 400
            /\ db'.event[e].status # db.event[e].status =>
                \/ last'.op = "create_event" /\ db'.event[e].status = "pending"
                \/ last'.op = "approve_event" /\ db.event[e].status = "pending"
            /\ (/\ last'.op \in {"register_for_event", "mark_attendance",
                                 "generate_certificate"}
                /\ NewRows(db, db', e)) =>
                    db.event[e].status = "approved" ]_vars

\* an approved event with a registration, an attendance and a certificate,
\* on which a further approve_event has failed
C30_Witness ==
    \E e \in EventIds, s \in Students :
        /\ last.op = "approve_event" /\ last.reg = e /\ last.status = 400
        /\ db.event[e].status = "approved"
        /\ db.registration[<<e, s>>] = "confirmed"
        /\ <<e, s>> \in db.attendance
        /\ db.certificate[<<e, s>>] = 1

====
